---- MODULE Spec2Model ----
(***************************************************************************)
(* Model of lib/routing.py: the URL rule compiler (UrlRule), the rule      *)
(* matcher, reverse path construction and the Addon router (add_route,     *)
(* route_for, url_for, run, redirect, _dispatch, try_convert).             *)
(*                                                                         *)
(* Strings are sequences of one-character strings, so that the regular     *)
(* expression substitutions of UrlRule.__init__ and the matching of the    *)
(* compiled expression are computed character by character.                *)
(***************************************************************************)
EXTENDS Integers, Sequences, FiniteSets, TLC

\* ------------------------------------------------------------------------
\* Characters
\* ------------------------------------------------------------------------

Lower == {"a", "b", "c", "d", "e", "f", "g", "h", "i", "l", "n", "p", "r",
          "s", "t", "u", "x", "y"}

Upper == {"F", "T"}

Digits == {"0", "1", "2", "3", "4", "5", "6", "7", "8", "9"}

\* The characters of the class [A-z] that the model's strings use.
NameStartChars == Lower \cup Upper

\* The characters of the class [A-z0-9] that the model's strings use.
NameChars == NameStartChars \cup Digits

DigitVal(c) ==
    CASE c = "0" -> 0 [] c = "1" -> 1 [] c = "2" -> 2 [] c = "3" -> 3
      [] c = "4" -> 4 [] c = "5" -> 5 [] c = "6" -> 6 [] c = "7" -> 7
      [] c = "8" -> 8 [] c = "9" -> 9

\* ------------------------------------------------------------------------
\* String helpers (str.startswith, str.split(prefix, 1)[1], concatenation)
\* ------------------------------------------------------------------------

startswith(s, pre) ==
    /\ Len(pre) <= Len(s)
    /\ SubSeq(s, 1, Len(pre)) = pre

From(s, i) == SubSeq(s, i, Len(s))

\* index of the first occurrence of sub in s at or after i, 0 when there is none
RECURSIVE find(_, _, _)
find(s, sub, i) ==
    IF i + Len(sub) - 1 > Len(s) THEN 0
    ELSE IF SubSeq(s, i, i + Len(sub) - 1) = sub THEN i
    ELSE find(s, sub, i + 1)

\* s.split(sep, 1)[1] for a string s that contains sep
split_after(s, sep) == From(s, find(s, sep, 1) + Len(sep))

\* ------------------------------------------------------------------------
\* The regular expressions of UrlRule.__init__
\* ------------------------------------------------------------------------

\* [A-z][A-z0-9]* at position i: the position after the longest name that
\* starts at i, 0 when no name starts there.
RECURSIVE NameRun(_, _)
NameRun(s, i) ==
    IF i <= Len(s) /\ s[i] \in NameChars THEN NameRun(s, i + 1) ELSE i

NameEnd(s, i) ==
    IF i <= Len(s) /\ s[i] \in NameStartChars THEN NameRun(s, i + 1) ELSE 0

NoHit == [end |-> 0, name |-> <<>>]

\* prefix [A-z][A-z0-9]*> at position i (the tail shared by the expressions)
NameClose(s, i) ==
    LET e == NameEnd(s, i) IN
    IF e # 0 /\ e <= Len(s) /\ s[e] = ">"
    THEN [end |-> e + 1, name |-> SubSeq(s, i, e - 1)]
    ELSE NoHit

\* '<([A-z][A-z0-9]*)>' matched at position i
arg_regex_at(s, i) ==
    IF i <= Len(s) /\ s[i] = "<" THEN NameClose(s, i + 1) ELSE NoHit

\* '<lead([A-z][A-z0-9]*)>' matched at position i, lead a literal such as
\* "string:" or "path:"
kind_regex_at(s, lead, i) ==
    IF i <= Len(s) /\ s[i] = "<" /\ startswith(From(s, i + 1), lead)
    THEN NameClose(s, i + 1 + Len(lead))
    ELSE NoHit

\* r'<(?:[^:]+:)?([A-z][A-z0-9]*)>' matched at position i.  The optional
\* group is tried first; [^:]+ cannot contain a colon and must be followed
\* by one, so it can only be the whole run up to the next colon, whatever
\* that run contains ('>' and '<' included).
kw_pattern_at(s, i) ==
    IF ~(i <= Len(s) /\ s[i] = "<") THEN NoHit
    ELSE LET c == find(s, <<":">>, i + 1)
             withKind == IF c > i + 1 THEN NameClose(s, c + 1) ELSE NoHit
         IN IF withKind.end # 0 THEN withKind ELSE NameClose(s, i + 1)

\* bool(arg_regex.search(pattern))
RECURSIVE arg_regex_search(_, _)
arg_regex_search(s, i) ==
    IF i > Len(s) THEN FALSE
    ELSE IF arg_regex_at(s, i).end # 0 THEN TRUE
    ELSE arg_regex_search(s, i + 1)

\* re.sub(kw_pattern, '{\\1}', pattern)
RECURSIVE sub_kw(_, _)
sub_kw(s, i) ==
    IF i > Len(s) THEN <<>>
    ELSE LET h == kw_pattern_at(s, i) IN
         IF h.end # 0 THEN <<"{">> \o h.name \o <<"}">> \o sub_kw(s, h.end)
         ELSE <<s[i]>> \o sub_kw(s, i + 1)

\* re.findall(kw_pattern, pattern)
RECURSIVE findall_kw(_, _)
findall_kw(s, i) ==
    IF i > Len(s) THEN <<>>
    ELSE LET h == kw_pattern_at(s, i) IN
         IF h.end # 0 THEN <<h.name>> \o findall_kw(s, h.end)
         ELSE findall_kw(s, i + 1)

\* re.sub('<([A-z][A-z0-9]*)>', '<string:\\1>', pattern)
RECURSIVE sub_default_kind(_, _)
sub_default_kind(s, i) ==
    IF i > Len(s) THEN <<>>
    ELSE LET h == arg_regex_at(s, i) IN
         IF h.end # 0
         THEN <<"<", "s", "t", "r", "i", "n", "g", ":">> \o h.name \o <<">">>
              \o sub_default_kind(s, h.end)
         ELSE <<s[i]>> \o sub_default_kind(s, i + 1)

\* An element of a compiled expression: a pattern character ("ch"), the
\* group (?P<name>[^/]+?) ("seg") or the group (?P<name>.*) ("greedy").
Ch(c) == [t |-> "ch", c |-> c, name |-> <<>>]
Group(t, name) == [t |-> t, c |-> "", name |-> name]

\* re.sub('<string:([A-z][A-z0-9]*)>', '(?P<\\1>[^/]+?)', p)
RECURSIVE sub_string_kind(_, _)
sub_string_kind(s, i) ==
    IF i > Len(s) THEN <<>>
    ELSE LET h == kind_regex_at(s, <<"s", "t", "r", "i", "n", "g", ":">>, i) IN
         IF h.end # 0 THEN <<Group("seg", h.name)>> \o sub_string_kind(s, h.end)
         ELSE <<Ch(s[i])>> \o sub_string_kind(s, i + 1)

\* the characters of a compiled expression from position i up to the next
\* group (the groups' own text holds no '<path:')
RECURSIVE chars_from(_, _)
chars_from(p, i) ==
    IF i > Len(p) \/ p[i].t # "ch" THEN <<>>
    ELSE <<p[i].c>> \o chars_from(p, i + 1)

\* re.sub('<path:([A-z][A-z0-9]*)>', '(?P<\\1>.*)', p)
RECURSIVE sub_path_kind(_, _)
sub_path_kind(p, i) ==
    IF i > Len(p) THEN <<>>
    ELSE IF p[i].t # "ch" THEN <<p[i]>> \o sub_path_kind(p, i + 1)
    ELSE LET h == kind_regex_at(chars_from(p, i), <<"p", "a", "t", "h", ":">>, 1) IN
         IF h.end # 0
         THEN <<Group("greedy", h.name)>> \o sub_path_kind(p, i + h.end - 1)
         ELSE <<p[i]>> \o sub_path_kind(p, i + 1)

\* UrlRule.__init__: the fields of a rule.  `pattern` is the constructor's
\* argument, kept to state properties of the rule; the code does not store it.
UrlRule(pattern) ==
    [pattern |-> pattern,
     _has_args |-> arg_regex_search(pattern, 1),
     _pattern |-> sub_kw(pattern, 1),
     _keywords |-> findall_kw(pattern, 1),
     _regex |-> sub_path_kind(
                    sub_string_kind(sub_default_kind(pattern, 1), 1), 1)]

\* ------------------------------------------------------------------------
\* UrlRule.match, UrlRule.exact_match
\* ------------------------------------------------------------------------

NoMatch == [ok |-> FALSE, kw |-> <<>>]

\* One (name, value) item of a dict; a dict is the sequence of its items.
Item(k, v) == [k |-> k, v |-> v]

dict_has(d, k) == \E i \in 1..Len(d) : d[i].k = k

dict_get(d, k) == d[CHOOSE i \in 1..Len(d) : d[i].k = k].v

NoSlash(s) == \A i \in 1..Len(s) : s[i] # "/"

\* The backtracking search of the compiled expression '^' + p + '$' from
\* element i of the expression and position j of the path.  Literal
\* characters are not escaped, so '.' matches any character; [^/]+? tries
\* the shortest capture first, .* the longest.
RECURSIVE regex_from(_, _, _, _, _)
RECURSIVE regex_group(_, _, _, _, _, _)
\* the search with the pattern's characters escaped: '.' matches only '.'
regex_from_escaped(re, i, path, j, kw) ==
    IF i > Len(re) THEN (IF j = Len(path) + 1 THEN [ok |-> TRUE, kw |-> kw] ELSE NoMatch)
    ELSE IF re[i].t = "ch"
    THEN IF j <= Len(path) /\ re[i].c = path[j]
         THEN regex_from(re, i + 1, path, j + 1, kw)
         ELSE NoMatch
    ELSE IF re[i].t = "seg" THEN regex_group(re, i, path, j, kw, 1)
    ELSE regex_group(re, i, path, j, kw, Len(path) - j + 1)

regex_from(re, i, path, j, kw) ==
    IF i > Len(re) THEN (IF j = Len(path) + 1 THEN [ok |-> TRUE, kw |-> kw] ELSE NoMatch)
    ELSE IF re[i].t = "ch"
    THEN IF j <= Len(path) /\ (re[i].c = "." \/ re[i].c = path[j])
         THEN regex_from(re, i + 1, path, j + 1, kw)
         ELSE NoMatch
    ELSE IF re[i].t = "seg" THEN regex_group(re, i, path, j, kw, 1)
    ELSE regex_group(re, i, path, j, kw, Len(path) - j + 1)

\* the group re[i] capturing n characters, then the next candidate length
regex_group(re, i, path, j, kw, n) ==
    IF n < 0 \/ j + n - 1 > Len(path) THEN NoMatch
    ELSE LET cap == SubSeq(path, j, j + n - 1)
             fits == re[i].t = "greedy" \/ (n >= 1 /\ NoSlash(cap))
             rest == IF fits
                     THEN regex_from(re, i + 1, path, j + n,
                                     Append(kw, Item(re[i].name, cap)))
                     ELSE NoMatch
         IN IF rest.ok THEN rest
            ELSE IF re[i].t = "seg"
            THEN (IF fits THEN regex_group(re, i, path, j, kw, n + 1) ELSE NoMatch)
            ELSE regex_group(re, i, path, j, kw, n - 1)

\* UrlRule.match: the groupdict of the match, NoMatch for None
match(rule, path) == regex_from(rule._regex, 1, path, 1, <<>>)

\* UrlRule.exact_match
exact_match(rule, path) == ~rule._has_args /\ rule._pattern = path

\* ------------------------------------------------------------------------
\* UrlRule.make_path
\* ------------------------------------------------------------------------

\* None, as the result of make_path
NoPath == [ok |-> FALSE, s |-> <<>>]

Built(s) == [ok |-> TRUE, s |-> s]

\* r'{[A-z][A-z0-9]*}' matched at position i of the reverse template
field_at(s, i) ==
    LET e == IF i <= Len(s) /\ s[i] = "{" THEN NameEnd(s, i + 1) ELSE 0 IN
    IF e # 0 /\ e <= Len(s) /\ s[e] = "}"
    THEN [end |-> e + 1, name |-> SubSeq(s, i + 1, e - 1)]
    ELSE NoHit

\* the number of %s that re.sub(r'{[A-z][A-z0-9]*}', r'%s', self._pattern) holds
RECURSIVE count_fields(_, _)
count_fields(s, i) ==
    IF i > Len(s) THEN 0
    ELSE LET h == field_at(s, i) IN
         IF h.end # 0 THEN 1 + count_fields(s, h.end)
         ELSE count_fields(s, i + 1)

\* re.sub(r'{[A-z][A-z0-9]*}', r'%s', self._pattern) % args, for as many
\* args as the template has fields: field number n takes args[n]
RECURSIVE format_args(_, _, _, _)
format_args(s, i, args, n) ==
    IF i > Len(s) THEN <<>>
    ELSE LET h == field_at(s, i) IN
         IF h.end # 0 THEN args[n] \o format_args(s, h.end, args, n + 1)
         ELSE <<s[i]>> \o format_args(s, i + 1, args, n)

\* the field names of self._pattern that str.format looks up
RECURSIVE field_names(_, _)
field_names(s, i) ==
    IF i > Len(s) THEN {}
    ELSE LET h == field_at(s, i) IN
         IF h.end # 0 THEN {h.name} \cup field_names(s, h.end)
         ELSE field_names(s, i + 1)

\* self._pattern.format(**url_kwargs), every field name being a key
RECURSIVE format_kwargs(_, _, _)
format_kwargs(s, i, kw) ==
    IF i > Len(s) THEN <<>>
    ELSE LET h == field_at(s, i) IN
         IF h.end # 0 THEN dict_get(kw, h.name) \o format_kwargs(s, h.end, kw)
         ELSE <<s[i]>> \o format_kwargs(s, i + 1, kw)

InSeq(x, seq) == \E i \in 1..Len(seq) : seq[i] = x

\* the items of kwargs whose key is (keep = TRUE) or is not (keep = FALSE)
\* among the keywords, in the order of kwargs
RECURSIVE filter_kwargs(_, _, _, _)
filter_kwargs(kw, i, keywords, keep) ==
    IF i > Len(kw) THEN <<>>
    ELSE (IF InSeq(kw[i].k, keywords) = keep THEN <<kw[i]>> ELSE <<>>)
         \o filter_kwargs(kw, i + 1, keywords, keep)

\* urllib's quote_plus of one character: letters, digits and "_.-~" are
\* kept, the space becomes "+", every other character its %XX escape
quote_char(c) ==
    IF c \in NameChars \cup {"_", ".", "-", "~"} THEN <<c>>
    ELSE CASE c = " " -> <<"+">>
           [] c = "/" -> <<"%", "2", "F">>
           [] c = ":" -> <<"%", "3", "A">>
           [] c = "<" -> <<"%", "3", "C">>
           [] c = "=" -> <<"%", "3", "D">>
           [] c = ">" -> <<"%", "3", "E">>
           [] c = "?" -> <<"%", "3", "F">>
           [] c = "{" -> <<"%", "7", "B">>
           [] c = "}" -> <<"%", "7", "D">>
           [] c = "&" -> <<"%", "2", "6">>
           [] c = "+" -> <<"%", "2", "B">>

RECURSIVE quote_plus(_)
quote_plus(s) ==
    IF s = <<>> THEN <<>> ELSE quote_char(Head(s)) \o quote_plus(Tail(s))

\* urlencode(qs_kwargs): k=v pairs joined by "&"
RECURSIVE urlencode(_, _)
urlencode(kw, i) ==
    IF i > Len(kw) THEN <<>>
    ELSE (IF i > 1 THEN <<"&">> ELSE <<>>)
         \o quote_plus(kw[i].k) \o <<"=">> \o quote_plus(kw[i].v)
         \o urlencode(kw, i + 1)

\* UrlRule.make_path(*args, **kwargs)
make_path(rule, args, kwargs) ==
    IF args # <<>> /\ kwargs # <<>> THEN NoPath
    ELSE IF args # <<>>
    THEN IF count_fields(rule._pattern, 1) = Len(args)
         THEN Built(format_args(rule._pattern, 1, args, 1))
         ELSE NoPath
    ELSE LET url_kwargs == filter_kwargs(kwargs, 1, rule._keywords, TRUE)
             qs_kwargs == filter_kwargs(kwargs, 1, rule._keywords, FALSE)
             query == IF qs_kwargs # <<>>
                      THEN <<"?">> \o urlencode(qs_kwargs, 1) ELSE <<>>
         IN IF \A k \in field_names(rule._pattern, 1) : dict_has(url_kwargs, k)
            THEN Built(format_kwargs(rule._pattern, 1, url_kwargs) \o query)
            ELSE NoPath

\* ------------------------------------------------------------------------
\* try_convert
\* ------------------------------------------------------------------------

\* The values a handler can receive: a string, an int, a float (n * 10^e,
\* or one of inf / nan named by s), a bool; NoneV is None.
StrV(s) == [ty |-> "str", s |-> s, n |-> 0, e |-> 0, b |-> FALSE]
IntV(n) == [ty |-> "int", s |-> <<>>, n |-> n, e |-> 0, b |-> FALSE]
FloatV(n, e) == [ty |-> "float", s |-> <<>>, n |-> n, e |-> e, b |-> FALSE]
FloatSpecial(s) == [ty |-> "float", s |-> s, n |-> 1, e |-> 0, b |-> FALSE]
BoolV(b) == [ty |-> "bool", s |-> <<>>, n |-> 0, e |-> 0, b |-> b]
NoneV == [ty |-> "None", s |-> <<>>, n |-> 0, e |-> 0, b |-> FALSE]

\* Python's truth value of a value
truthy(v) ==
    CASE v.ty = "str" -> v.s # <<>>
      [] v.ty = "int" -> v.n # 0
      [] v.ty = "float" -> v.n # 0
      [] v.ty = "bool" -> v.b
      [] v.ty = "None" -> FALSE

all_isdigit(s) == \A i \in 1..Len(s) : s[i] \in Digits

\* the number a string of decimal digits denotes
RECURSIVE digits_value(_)
digits_value(s) ==
    IF s = <<>> THEN 0
    ELSE 10 * digits_value(SubSeq(s, 1, Len(s) - 1)) + DigitVal(s[Len(s)])

lower_char(c) == CASE c = "T" -> "t" [] c = "F" -> "f" [] OTHER -> c

\* str.lower
lower(s) == [i \in 1..Len(s) |-> lower_char(s[i])]

strip_sign(s) == IF s # <<>> /\ s[1] \in {"+", "-"} THEN Tail(s) ELSE s

\* n * 10^e without the trailing zeros of n
RECURSIVE normal_float(_, _)
normal_float(n, e) ==
    IF n = 0 THEN FloatV(0, 0)
    ELSE IF n % 10 = 0 THEN normal_float(n \div 10, e + 1)
    ELSE FloatV(n, e)

\* float(value): [sign] digits [. digits] [e [sign] digits], or inf,
\* infinity, nan in any case; ok = FALSE stands for the ValueError
float_parse(value) ==
    LET body == strip_sign(value)
        neg == value # <<>> /\ value[1] = "-"
        ePos == IF find(body, <<"e">>, 1) # 0 THEN find(body, <<"e">>, 1)
                ELSE find(body, <<"E">>, 1)
        mant == IF ePos = 0 THEN body ELSE SubSeq(body, 1, ePos - 1)
        expo == IF ePos = 0 THEN <<>> ELSE From(body, ePos + 1)
        dot == find(mant, <<".">>, 1)
        whole == IF dot = 0 THEN mant ELSE SubSeq(mant, 1, dot - 1)
        frac == IF dot = 0 THEN <<>> ELSE From(mant, dot + 1)
        expDigits == strip_sign(expo)
        expVal == IF expo # <<>> /\ expo[1] = "-" THEN 0 - digits_value(expDigits)
                  ELSE digits_value(expDigits)
        m == digits_value(whole \o frac)
    IN IF lower(body) \in {<<"i", "n", "f">>, <<"n", "a", "n">>,
                           <<"i", "n", "f", "i", "n", "i", "t", "y">>}
       THEN [ok |-> TRUE, v |-> FloatSpecial(lower(body))]
       ELSE IF /\ all_isdigit(whole) /\ all_isdigit(frac)
               /\ Len(whole) + Len(frac) >= 1
               /\ (ePos # 0 => expDigits # <<>> /\ all_isdigit(expDigits))
       THEN [ok |-> TRUE,
             v |-> normal_float(IF neg THEN 0 - m ELSE m, expVal - Len(frac))]
       ELSE [ok |-> FALSE, v |-> NoneV]

\* try_convert(value); raise = TRUE is the ValueError of int('')
try_convert(value) ==
    IF all_isdigit(value)
    THEN IF value = <<>> THEN [raise |-> TRUE, v |-> NoneV]
         ELSE [raise |-> FALSE, v |-> IntV(digits_value(value))]
    ELSE IF float_parse(value).ok THEN [raise |-> FALSE, v |-> float_parse(value).v]
    ELSE IF lower(value) = <<"t", "r", "u", "e">> THEN [raise |-> FALSE, v |-> BoolV(TRUE)]
    ELSE IF lower(value) = <<"f", "a", "l", "s", "e">> THEN [raise |-> FALSE, v |-> BoolV(FALSE)]
    ELSE [raise |-> FALSE, v |-> NoneV]

\* ------------------------------------------------------------------------
\* urlsplit(url).path, as run uses it
\* ------------------------------------------------------------------------

SchemeChars == NameChars \cup {"+", "-", "."}

\* url without its scheme: the text before the first ':' is a scheme when it
\* starts with a letter and holds only scheme characters
drop_scheme(url) ==
    LET i == find(url, <<":">>, 1) IN
    IF /\ i > 1
       /\ url[1] \in NameStartChars
       /\ \A k \in 1..(i - 1) : url[k] \in SchemeChars
    THEN From(url, i + 1) ELSE url

\* the first position at or after i of a character of cs, Len(s) + 1 if none
RECURSIVE find_any(_, _, _)
find_any(s, cs, i) ==
    IF i > Len(s) \/ s[i] \in cs THEN i ELSE find_any(s, cs, i + 1)

\* url after '//' + netloc, the netloc ending at the first of "/?#"
drop_netloc(url) ==
    IF startswith(url, <<"/", "/">>) THEN From(url, find_any(url, {"/", "?", "#"}, 3))
    ELSE url

\* urlsplit(url).path: what is left before the first '#' or '?'
urlsplit_path(url) ==
    LET rest == drop_netloc(drop_scheme(url)) IN
    SubSeq(rest, 1, find_any(rest, {"?", "#"}, 1) - 1)

\* ------------------------------------------------------------------------
\* Addon: the router
\* ------------------------------------------------------------------------

\* The handlers (view functions) that get registered.
Handlers == {"f", "g"}

None == "None"

\* self._rules is a dict from view function to list of rules.  It is the
\* sequence of its (func, rules) entries in the order .items() iterates.
Entry(func, rs) == [func |-> func, rules |-> rs]

has_func(d, func) == \E i \in 1..Len(d) : d[i].func = func

index_of(d, func) == CHOOSE i \in 1..Len(d) : d[i].func = func

\* route_for, lines 73-74: the path without the base_url it starts with
strip_base(base, path) ==
    IF startswith(path, base) THEN split_after(path, base) ELSE path

\* route_for, first loop: the view function of the first entry that has an
\* exactly matching rule
RECURSIVE route_for_exact(_, _, _)
route_for_exact(d, i, path) ==
    IF i > Len(d) THEN None
    ELSE IF \E r \in 1..Len(d[i].rules) : exact_match(d[i].rules[r], path)
    THEN d[i].func
    ELSE route_for_exact(d, i + 1, path)

\* the second loop returning the last entry that has a matching rule
RECURSIVE route_for_regex_last(_, _, _)
route_for_regex_last(d, i, path) ==
    IF i > Len(d) THEN None
    ELSE IF route_for_regex_last(d, i + 1, path) # None
    THEN route_for_regex_last(d, i + 1, path)
    ELSE IF \E r \in 1..Len(d[i].rules) : match(d[i].rules[r], path).ok
    THEN d[i].func
    ELSE None

\* route_for, second loop: the view function of the first entry that has a
\* rule whose regex matches
RECURSIVE route_for_regex(_, _, _)
route_for_regex(d, i, path) ==
    IF i > Len(d) THEN None
    ELSE IF \E r \in 1..Len(d[i].rules) : match(d[i].rules[r], path).ok
    THEN d[i].func
    ELSE route_for_regex(d, i + 1, path)

\* route_for with a single search, the first view function that owns a rule
\* matching either way
route_for_one_pass(d, base, path) ==
    route_for_regex(d, 1, strip_base(base, path))

\* Addon.route_for
route_for(d, base, path) ==
    LET p == strip_base(base, path) IN
    IF route_for_exact(d, 1, p) # None THEN route_for_exact(d, 1, p)
    ELSE route_for_regex(d, 1, p)

\* Addon.url_for_path
url_for_path(base, path) ==
    base \o (IF startswith(path, <<"/">>) THEN path ELSE <<"/">> \o path)

\* url_for, the loop over self._rules[func]: the first path that is not None
RECURSIVE first_path(_, _, _, _)
first_path(rs, i, args, kwargs) ==
    IF i > Len(rs) THEN NoPath
    ELSE IF make_path(rs[i], args, kwargs).ok THEN make_path(rs[i], args, kwargs)
    ELSE first_path(rs, i + 1, args, kwargs)

\* Addon.url_for: the URL, or the RoutingError
url_for(d, base, func, args, kwargs) ==
    LET path == IF has_func(d, func)
                THEN first_path(d[index_of(d, func)].rules, 1, args, kwargs)
                ELSE NoPath
    IN IF path.ok THEN [err |-> "none", url |-> url_for_path(base, path.s)]
       ELSE [err |-> "RoutingError", url |-> <<>>]

\* One call of a view function: how = "exact" is view_func(), how = "regex"
\* is view_func(**kwargs); pattern is the pattern of the rule that was hit.
Call(func, how, pattern, kwargs) ==
    [func |-> func, how |-> how, pattern |-> pattern, kwargs |-> kwargs]

NoHitRule == [func |-> None, rule |-> 0]

\* the first rule of the list for which the test holds, 0 if none
first_exact(rs, path) ==
    IF \E r \in 1..Len(rs) : exact_match(rs[r], path)
    THEN CHOOSE r \in 1..Len(rs) :
            /\ exact_match(rs[r], path)
            /\ \A q \in 1..(r - 1) : ~exact_match(rs[q], path)
    ELSE 0

first_regex(rs, path) ==
    IF \E r \in 1..Len(rs) : match(rs[r], path).ok
    THEN CHOOSE r \in 1..Len(rs) :
            /\ match(rs[r], path).ok
            /\ \A q \in 1..(r - 1) : ~match(rs[q], path).ok
    ELSE 0

\* _dispatch, first loop
RECURSIVE dispatch_exact(_, _, _)
dispatch_exact(d, i, path) ==
    IF i > Len(d) THEN NoHitRule
    ELSE IF first_exact(d[i].rules, path) # 0
    THEN [func |-> d[i].func, rule |-> first_exact(d[i].rules, path)]
    ELSE dispatch_exact(d, i + 1, path)

\* _dispatch, second loop
RECURSIVE dispatch_regex(_, _, _)
dispatch_regex(d, i, path) ==
    IF i > Len(d) THEN NoHitRule
    ELSE IF first_regex(d[i].rules, path) # 0
    THEN [func |-> d[i].func, rule |-> first_regex(d[i].rules, path)]
    ELSE dispatch_regex(d, i + 1, path)

\* _dispatch, lines 146-150: the value stored for a captured string v
converted(convert, v) ==
    IF convert /\ truthy(try_convert(v).v) THEN try_convert(v).v ELSE StrV(v)

\* Addon._dispatch: the error raised ("none" if none) and the calls made
dispatch(d, convert, path) ==
    LET ex == dispatch_exact(d, 1, path)
        rx == dispatch_regex(d, 1, path)
        rule == d[index_of(d, rx.func)].rules[rx.rule]
        kw == match(rule, path).kw
    IN IF ex.func # None
       THEN [err |-> "none",
             calls |-> <<Call(ex.func, "exact",
                              d[index_of(d, ex.func)].rules[ex.rule].pattern, <<>>)>>]
       ELSE IF rx.func = None THEN [err |-> "RoutingError", calls |-> <<>>]
       ELSE IF convert /\ \E i \in 1..Len(kw) : try_convert(kw[i].v).raise
       THEN [err |-> "ValueError", calls |-> <<>>]
       ELSE [err |-> "none",
             calls |-> <<Call(rx.func, "regex", rule.pattern,
                              [i \in 1..Len(kw) |->
                                  Item(kw[i].k, converted(convert, kw[i].v))])>>]

\* ------------------------------------------------------------------------
\* Bounds and inputs
\* ------------------------------------------------------------------------

\* The number of add_route calls of a run of the model.
MaxRules == 3

\* The number of add_route calls in the models of dispatch and of url_for.
MaxSmallRules == 2

\* base_url of the Addon: "p://t"
BaseUrl == <<"p", ":", "/", "/", "t">>

\* Route patterns
PatAX == <<"/", "a", "/", "<", "x", ">">>                      \* /a/<x>
PatAB == <<"/", "a", "/", "b">>                                \* /a/b
PatADotB == <<"/", "a", ".", "b">>                             \* /a.b
PatXY == <<"/", "<", "x", ">", "/", "<", "y", ">">>            \* /<x>/<y>
PatABSlash == <<"/", "a", "/", "b", "/">>                      \* /a/b/
PatDPathX == <<"/", "d", "/", "<", "p", "a", "t", "h", ":", "x", ">">>  \* /d/<path:x>
PatXStringY == <<"/", "<", "x", ">", "/",
                 "<", "s", "t", "r", "i", "n", "g", ":", "y", ">">>     \* /<x>/<string:y>

\* Paths
PathAB == <<"/", "a", "/", "b">>                               \* /a/b
PathAC == <<"/", "a", "/", "c">>                               \* /a/c
PathAXB == <<"/", "a", "x", "b">>                              \* /axb
PathADotB == <<"/", "a", ".", "b">>                            \* /a.b
PathABSlash == <<"/", "a", "/", "b", "/">>                     \* /a/b/
PathA0 == <<"/", "a", "/", "0">>                               \* /a/0
PathA12 == <<"/", "a", "/", "1", "2">>                         \* /a/12
PathAFalse == <<"/", "a", "/", "F", "a", "l", "s", "e">>       \* /a/False
PathA1Dot5 == <<"/", "a", "/", "1", ".", "5">>                 \* /a/1.5
PathD == <<"/", "d", "/">>                                     \* /d/
PathDBraces == <<"/", "d", "/", "{", "x", "}">>                \* /d/{x}

RoutePatterns == {PatAX, PatAB, PatADotB, PatXY}

RoutePaths == {PathAB, PathAC, PathAXB, PathADotB, BaseUrl \o PathAB}

\* argv[0] of run
RouteUrls == {BaseUrl \o PathAB, BaseUrl \o PathAXB}

DispatchPatterns == {PatAX, PatAB, PatABSlash, PatDPathX}

DispatchPaths == {PathAB, PathABSlash, PathA0, PathA12, PathAFalse, PathA1Dot5,
                  PathD, PathDBraces, BaseUrl \o PathAB}

\* argv[0] of run
DispatchUrls == {BaseUrl \o PathAB, BaseUrl \o PathABSlash, BaseUrl \o PathA0,
                 BaseUrl \o PathD, BaseUrl \o PathDBraces, BaseUrl}

BuildPatterns == {PatAX, PatAB, PatXY, PatXStringY}

BuildPaths == {PathAB, <<"/", "1", "/", "2">>}

\* (args, kwargs) of url_for
BuildArgs ==
    {[args |-> <<>>, kwargs |-> <<>>],
     [args |-> <<<<"1">>>>, kwargs |-> <<>>],
     [args |-> <<<<"1">>, <<"2">>>>, kwargs |-> <<>>],
     [args |-> <<>>, kwargs |-> <<Item(<<"x">>, <<"1">>)>>],
     [args |-> <<>>, kwargs |-> <<Item(<<"y">>, <<"2">>)>>],
     [args |-> <<>>, kwargs |-> <<Item(<<"x">>, <<"1">>), Item(<<"y">>, <<"2">>)>>],
     [args |-> <<<<"1">>>>, kwargs |-> <<Item(<<"x">>, <<"1">>)>>]}

\* ------------------------------------------------------------------------
\* State
\* ------------------------------------------------------------------------

VARIABLES
    rules,          \* Addon._rules
    base_url,       \* Addon.base_url
    convert_args,   \* Addon.convert_args
    registered,     \* history: the (func, pattern) of the add_route calls, in call order
    last            \* the last operation: its arguments and its outcome

vars == <<rules, base_url, convert_args, registered, last>>

\* Addon.__init__(base_url, convert_args=False)
Init ==
    /\ rules = <<>>
    /\ base_url = BaseUrl
    /\ convert_args = FALSE
    /\ registered = <<>>
    /\ last = [op |-> "init"]

\* Addon.__init__(base_url, convert_args) for either value of convert_args
InitConvert ==
    /\ rules = <<>>
    /\ base_url = BaseUrl
    /\ convert_args \in BOOLEAN
    /\ registered = <<>>
    /\ last = [op |-> "init"]

\* Addon.add_route(func, pattern), at most max calls in all.  A dict iterates
\* its keys in the order of their insertion, so a new view function takes
\* the last place.
add_route(func, pattern, max) ==
    /\ Len(registered) < max
    /\ IF has_func(rules, func)
       THEN rules' = [rules EXCEPT ![index_of(rules, func)].rules =
                                        Append(@, UrlRule(pattern))]
       ELSE rules' = Append(rules, Entry(func, <<UrlRule(pattern)>>))
    /\ registered' = Append(registered, [func |-> func, pattern |-> pattern])
    /\ last' = [op |-> "add_route", func |-> func, pattern |-> pattern]
    /\ UNCHANGED <<base_url, convert_args>>

\* a call of Addon.route_for(path)
CallRouteFor(path) ==
    /\ last' = [op |-> "route_for", path |-> path,
                res |-> route_for(rules, base_url, path)]
    /\ UNCHANGED <<rules, base_url, convert_args, registered>>

\* Addon.run(argv), argv[0] = url
run(url) ==
    LET path == IF urlsplit_path(url) # <<>> THEN urlsplit_path(url) ELSE <<"/">> IN
    /\ last' = [op |-> "run", url |-> url, path |-> path,
                out |-> dispatch(rules, convert_args, path)]
    /\ UNCHANGED <<rules, base_url, convert_args, registered>>

\* Addon.redirect(path)
redirect(path) ==
    /\ last' = [op |-> "redirect", path |-> path,
                out |-> dispatch(rules, convert_args, path)]
    /\ UNCHANGED <<rules, base_url, convert_args, registered>>

\* a call of Addon.url_for(func, *args, **kwargs)
CallUrlFor(func, args, kwargs) ==
    /\ last' = [op |-> "url_for", func |-> func, args |-> args, kwargs |-> kwargs,
                res |-> url_for(rules, base_url, func, args, kwargs)]
    /\ UNCHANGED <<rules, base_url, convert_args, registered>>

\* Forward resolution: registration, route_for, run and redirect.
Next ==
    \/ \E func \in Handlers, pattern \in RoutePatterns : add_route(func, pattern, MaxRules)
    \/ \E path \in RoutePaths : CallRouteFor(path)
    \/ \E url \in RouteUrls : run(url)
    \/ \E path \in RoutePaths : redirect(path)

Spec == Init /\ [][Next]_vars

\* Dispatch: registration, route_for, run and redirect, with and without
\* conversion of the arguments.
NextDispatch ==
    \/ \E func \in Handlers, pattern \in DispatchPatterns :
          add_route(func, pattern, MaxSmallRules)
    \/ \E path \in DispatchPaths : CallRouteFor(path)
    \/ \E url \in DispatchUrls : run(url)
    \/ \E path \in DispatchPaths : redirect(path)

SpecDispatch == InitConvert /\ [][NextDispatch]_vars

\* Reverse resolution: registration, url_for and route_for.
NextBuild ==
    \/ \E func \in Handlers, pattern \in BuildPatterns :
          add_route(func, pattern, MaxSmallRules)
    \/ \E func \in Handlers, a \in BuildArgs : CallUrlFor(func, a.args, a.kwargs)
    \/ \E path \in BuildPaths : CallRouteFor(path)

SpecBuild == Init /\ [][NextBuild]_vars

\* ------------------------------------------------------------------------
\* Vocabulary of the properties
\* ------------------------------------------------------------------------

\* The placeholders a pattern declares by the pattern language, in order:
\* <name> and <string:name> (kind "string"), <path:name> (kind "path").
RECURSIVE Placeholders(_, _)
Placeholders(s, i) ==
    IF i > Len(s) THEN <<>>
    ELSE LET plain == arg_regex_at(s, i)
             str == kind_regex_at(s, <<"s", "t", "r", "i", "n", "g", ":">>, i)
             pth == kind_regex_at(s, <<"p", "a", "t", "h", ":">>, i)
         IN IF plain.end # 0
            THEN <<[name |-> plain.name, kind |-> "string"]>> \o Placeholders(s, plain.end)
            ELSE IF str.end # 0
            THEN <<[name |-> str.name, kind |-> "string"]>> \o Placeholders(s, str.end)
            ELSE IF pth.end # 0
            THEN <<[name |-> pth.name, kind |-> "path"]>> \o Placeholders(s, pth.end)
            ELSE Placeholders(s, i + 1)

NumPlaceholders(rule) == Len(Placeholders(rule.pattern, 1))

\* the rules of the table, and those of one view function
OwnedRules(func) ==
    IF has_func(rules, func)
    THEN {rules[index_of(rules, func)].rules[r] :
             r \in 1..Len(rules[index_of(rules, func)].rules)}
    ELSE {}

AllRules == UNION {OwnedRules(func) : func \in Handlers}

\* the rule of the k-th add_route call
Registered(k) == UrlRule(registered[k].pattern)

\* the least number of a nonempty set of numbers
Least(S) == CHOOSE k \in S : \A m \in S : k <= m

IsDispatch == last.op \in {"run", "redirect"}

\* the path that the last route_for searched for
Searched == strip_base(base_url, last.path)

\* ------------------------------------------------------------------------
\* Properties of forward resolution (specification Spec)
\* ------------------------------------------------------------------------

\* C1: whenever some registered rule exact-matches the path, route_for
\* returns a view function that owns an exact-matching rule, whatever
\* placeholder rules match the path too and wherever they stand; a view
\* function without an exact-matching rule is returned only when no rule of
\* the whole table exact-matches the path.
ExactBeatsRegex ==
    last.op = "route_for" =>
        /\ (\E r \in AllRules : exact_match(r, Searched))
              => /\ last.res # None
                 /\ \E r \in OwnedRules(last.res) : exact_match(r, Searched)
        /\ (/\ last.res # None
            /\ \A r \in OwnedRules(last.res) : ~exact_match(r, Searched))
              => \A r \in AllRules : ~exact_match(r, Searched)

\* C1 witness: the view function registered first and iterated first owns
\* only a placeholder rule that matches the path, the second one owns the
\* exact rule, and route_for returned the second.
ExactBeatsRegexWitness ==
    /\ last.op = "route_for"
    /\ Len(rules) = 2
    /\ registered[1].func = rules[1].func
    /\ \E r \in OwnedRules(rules[1].func) :
          NumPlaceholders(r) > 0 /\ match(r, Searched).ok
    /\ \A r \in OwnedRules(rules[1].func) : ~exact_match(r, Searched)
    /\ \E r \in OwnedRules(rules[2].func) : exact_match(r, Searched)
    /\ last.res = rules[2].func

\* the add_route calls whose rule exact-matches, or regex-matches, the path
ExactCalls(path) ==
    {k \in 1..Len(registered) : exact_match(Registered(k), path)}

RegexCalls(path) ==
    {k \in 1..Len(registered) : match(Registered(k), path).ok}

\* the entries of the dict that own an exact-matching, or a regex-matching, rule
ExactEntries(path) ==
    {i \in 1..Len(rules) : \E r \in OwnedRules(rules[i].func) : exact_match(r, path)}

RegexEntries(path) ==
    {i \in 1..Len(rules) : \E r \in OwnedRules(rules[i].func) : match(r, path).ok}

\* C2 as claimed: in each pass route_for returns the view function of the
\* earliest-registered rule that matches in that pass.
RouteForEarliestRegistered ==
    last.op = "route_for" =>
        last.res =
            IF ExactCalls(Searched) # {}
            THEN registered[Least(ExactCalls(Searched))].func
            ELSE IF RegexCalls(Searched) # {}
            THEN registered[Least(RegexCalls(Searched))].func
            ELSE None

\* C2 as amended: in each pass route_for returns the first view function, in
\* the iteration order of the dict of view functions, that owns a matching
\* rule; the rules of one view function all rank at its place in that order.
RouteForFirstEntry ==
    last.op = "route_for" =>
        last.res =
            IF ExactEntries(Searched) # {}
            THEN rules[Least(ExactEntries(Searched))].func
            ELSE IF RegexEntries(Searched) # {}
            THEN rules[Least(RegexEntries(Searched))].func
            ELSE None

\* C2 witness: no rule exact-matches, two view functions own a regex-matching
\* rule, the earliest-registered matching rule belongs to the one that comes
\* second in the dict (the first one registered its matching rule later),
\* and route_for returned the first.
RouteForFirstEntryWitness ==
    /\ last.op = "route_for"
    /\ ExactEntries(Searched) = {}
    /\ RegexEntries(Searched) = {1, 2}
    /\ registered[Least(RegexCalls(Searched))].func = rules[2].func
    /\ last.res = rules[1].func

\* the path that the last route_for or dispatch searched the table for
SearchedPath == IF last.op = "route_for" THEN Searched ELSE last.path

IsSearch == last.op \in {"route_for", "run", "redirect"}

\* C3 as claimed: dispatch(p) calls exactly one view function exactly once,
\* the one route_for(p) returns, when route_for(p) is not None, and raises
\* RoutingError without any call exactly when route_for(p) is None.
DispatchAgreesWithRouteFor ==
    IsDispatch =>
        LET h == route_for(rules, base_url, last.path) IN
        /\ h # None => /\ last.out.err = "none"
                       /\ Len(last.out.calls) = 1
                       /\ last.out.calls[1].func = h
        /\ h = None => /\ last.out.err = "RoutingError"
                       /\ last.out.calls = <<>>

\* the pattern read as an unescaped regular expression without groups
\* matches the path: same length, and the same character wherever the
\* pattern's character is not '.'
DotEq(pattern, path) ==
    /\ Len(pattern) = Len(path)
    /\ \A i \in 1..Len(pattern) : pattern[i] = "." \/ pattern[i] = path[i]

\* C5 as claimed: match returns None for every rule without placeholders,
\* and the regex pass never resolves a path to such a rule.
ZeroPlaceholderNeverMatches ==
    IsSearch =>
        /\ \A r \in AllRules :
              NumPlaceholders(r) = 0 => ~match(r, SearchedPath).ok
        /\ IsDispatch =>
              \A i \in 1..Len(last.out.calls) :
                 last.out.calls[i].how = "regex"
                    => NumPlaceholders(UrlRule(last.out.calls[i].pattern)) > 0

\* C5 as amended: for a rule without placeholders match returns the empty
\* dict exactly when the path satisfies the pattern read as an unescaped
\* regular expression, and None otherwise; dispatch resolves a path to such
\* a rule in the regex pass only when the path is not the pattern itself.
ZeroPlaceholderMatchesUnescaped ==
    IsSearch =>
        /\ \A r \in AllRules :
              NumPlaceholders(r) = 0 =>
                 match(r, SearchedPath) =
                    IF DotEq(r.pattern, SearchedPath)
                    THEN [ok |-> TRUE, kw |-> <<>>] ELSE NoMatch
        /\ IsDispatch =>
              \A i \in 1..Len(last.out.calls) :
                 (/\ last.out.calls[i].how = "regex"
                  /\ NumPlaceholders(UrlRule(last.out.calls[i].pattern)) = 0)
                    => /\ last.out.calls[i].pattern # last.path
                       /\ DotEq(last.out.calls[i].pattern, last.path)

\* C5 witness: a dispatch that the regex pass resolved to a rule without
\* placeholders.
ZeroPlaceholderMatchesUnescapedWitness ==
    /\ IsDispatch
    /\ Len(last.out.calls) = 1
    /\ last.out.calls[1].how = "regex"
    /\ NumPlaceholders(UrlRule(last.out.calls[1].pattern)) = 0

\* ------------------------------------------------------------------------
\* Properties of dispatch (specification SpecDispatch)
\* ------------------------------------------------------------------------

\* the add_route calls of a pattern without placeholders that is the path
\* plus a trailing slash, or the path minus its trailing slash
SlashTwins(path) ==
    {k \in 1..Len(registered) :
        /\ Placeholders(registered[k].pattern, 1) = <<>>
        /\ \/ registered[k].pattern = path \o <<"/">>
           \/ registered[k].pattern \o <<"/">> = path}

\* C6 as claimed: run with a path that differs from a registered pattern
\* without placeholders only by a trailing slash calls the pattern's view
\* function exactly once and raises no RoutingError.
TrailingSlashDispatched ==
    (last.op = "run" /\ SlashTwins(last.path) # {}) =>
        /\ last.out.err = "none"
        /\ Len(last.out.calls) = 1
        /\ \E k \in SlashTwins(last.path) :
              last.out.calls[1].func = registered[k].func

\* the value the view function is to receive for a captured string: the
\* outcome of try_convert, the string itself when there is none
ConvertedValue(v) ==
    IF try_convert(v).v = NoneV THEN StrV(v) ELSE try_convert(v).v

\* C7 as claimed: with convert_args, a regex-pass hit passes the try_convert
\* outcome of every captured string (0, 0.0 and False included), and
\* dispatch never fails because of the conversion.
ConvertedArgumentsPassed ==
    (IsDispatch /\ convert_args) =>
        /\ last.out.err # "ValueError"
        /\ \A i \in 1..Len(last.out.calls) :
              last.out.calls[i].how = "regex" =>
                 LET caps == match(UrlRule(last.out.calls[i].pattern), last.path).kw IN
                 last.out.calls[i].kwargs =
                    [j \in 1..Len(caps) |-> Item(caps[j].k, ConvertedValue(caps[j].v))]

\* C10 as claimed: exact_match holds exactly when the pattern declares no
\* placeholder of any form and equals the path, so dispatch never calls a
\* view function without arguments through a rule that has a placeholder.
ExactMatchOnlyWithoutPlaceholders ==
    IsSearch =>
        /\ \A r \in AllRules :
              exact_match(r, SearchedPath)
                 <=> (NumPlaceholders(r) = 0 /\ r.pattern = SearchedPath)
        /\ IsDispatch =>
              \A i \in 1..Len(last.out.calls) :
                 last.out.calls[i].how = "exact"
                    => NumPlaceholders(UrlRule(last.out.calls[i].pattern)) = 0

\* ------------------------------------------------------------------------
\* Properties of reverse resolution (specification SpecBuild)
\* ------------------------------------------------------------------------

\* the list of rules of a view function, empty when it has none
RuleList(func) ==
    IF has_func(rules, func) THEN rules[index_of(rules, func)].rules ELSE <<>>

\* the cases in which building a rule's path is to fail: both kinds of
\* arguments, a number of positional values other than the number of
\* placeholders, a placeholder without a named value
BuildFails(rule, args, kwargs) ==
    \/ args # <<>> /\ kwargs # <<>>
    \/ args # <<>> /\ Len(args) # NumPlaceholders(rule)
    \/ /\ args = <<>>
       /\ \E i \in 1..NumPlaceholders(rule) :
             ~dict_has(kwargs, Placeholders(rule.pattern, 1)[i].name)

\* C4 as claimed: url_for returns base_url + the path of the first rule of
\* the view function whose build does not fail, and raises RoutingError
\* exactly when the view function has no rule or every build fails.
UrlForFirstBuildable ==
    last.op = "url_for" =>
        LET rs == RuleList(last.func)
            good == {i \in 1..Len(rs) : ~BuildFails(rs[i], last.args, last.kwargs)}
        IN IF good = {} THEN last.res.err = "RoutingError"
           ELSE /\ last.res.err = "none"
                /\ last.res.url =
                      url_for_path(base_url,
                                   make_path(rs[Least(good)], last.args, last.kwargs).s)

\* the named arguments equivalent to positional ones: the i-th placeholder
\* of the rule takes the i-th value
NamedOf(rule, args) ==
    [i \in 1..Len(args) |-> Item(Placeholders(rule.pattern, 1)[i].name, args[i])]

\* C8 as claimed: for a rule with n placeholders and n values, make_path
\* with the positional values and with the equivalent named values both
\* succeed with the same string, hence url_for agrees on the two forms.
PositionalNamedAgree ==
    (last.op = "url_for" /\ last.args # <<>> /\ last.kwargs = <<>>) =>
        /\ \A r \in AllRules :
              NumPlaceholders(r) = Len(last.args) =>
                 /\ make_path(r, last.args, <<>>).ok
                 /\ make_path(r, last.args, <<>>)
                       = make_path(r, <<>>, NamedOf(r, last.args))
        /\ (/\ RuleList(last.func) # <<>>
            /\ NumPlaceholders(RuleList(last.func)[1]) = Len(last.args))
              => /\ last.res.err = "none"
                 /\ last.res = url_for(rules, base_url, last.func, <<>>,
                                       NamedOf(RuleList(last.func)[1], last.args))

\* C9 as claimed: for a rule whose placeholders are all of kind string and a
\* path it matches with captures free of '/', make_path with the captures
\* succeeds and the rebuilt path matches with the same captures.
MatchBuildRoundTrip ==
    last.op = "route_for" =>
        \A r \in AllRules :
           LET m == match(r, Searched)
               b == make_path(r, <<>>, m.kw)
           IN (/\ \A i \in 1..NumPlaceholders(r) :
                     Placeholders(r.pattern, 1)[i].kind = "string"
               /\ m.ok
               /\ \A i \in 1..Len(m.kw) : NoSlash(m.kw[i].v))
                 => /\ b.ok
                    /\ match(r, b.s) = m

====
